---------------------------- MODULE Spec2Model ----------------------------
(***************************************************************************)
(* Model of etw-reader/examples/log-stacks.rs: the callback that open_trace *)
(* runs once per trace record.  It correlates StackWalk fragments with the  *)
(* Timeline (`events`) by timestamp and thread, keeps the per-thread list   *)
(* of events whose kernel stack is unfinished, and appends one Timeline     *)
(* entry per record.  A Rust panic (failed assert!, unwrap of None, index   *)
(* out of bounds, usize underflow) ends the run: `panic` names the place    *)
(* that panicked and no record is processed afterwards.                     *)
(*                                                                          *)
(* Timeline indices are the 0-based indices of the Rust Vec; entry i of the *)
(* Vec is events[i + 1] here.  A u64 address is a tuple of four 16-bit      *)
(* limbs, most significant first, because the kernel boundary              *)
(* 0xFFFF000000000000 does not fit the model checker's integers.            *)
(***************************************************************************)
EXTENDS Integers, Sequences, FiniteSets, TLC

VARIABLES
    events,     \* Vec<Event>: the Timeline
    threads,    \* HashMap<u32, ThreadState>
    processes,  \* HashMap<u32, String>
    panic,      \* NoPanic, or the expression whose panic ended the run
    diags,      \* the lines the last record's callback printed
    last,       \* the stack fragment the last record carried, and its scan
    record,     \* the last record: schema name, header and payload thread id
    scan        \* the locals of a backward scan that is under way, or NoScan

vars == <<events, threads, processes, panic, diags, last, record, scan>>

-----------------------------------------------------------------------------
(* Bounds of the model *)

\* longest Timeline of the traces of sample and stack records
MaxEvents == 5

\* header and payload timestamps are drawn from 1..MaxTime
MaxTime == 2

\* thread ids of record headers and payloads
Tids == {1, 2}

\* header thread ids of the records whose payload names a thread (stack,
\* sample and context-switch records)
StackHeaderTids == {2}

\* longest Timeline of the traces whose stack records carry any of AllStacks
MaxFrag == 4

\* longest Timeline of the traces that hold records of every kind
MaxAll == 3

\* longest Timeline of the traces whose addresses lie at the kernel boundaries
MaxAddr == 3

\* longest Timeline of the traces whose records come in any timestamp order
MaxAny == 4

\* longest Timeline of the traces whose scans are taken one iteration at a time
MaxScan == 4

\* process ids of payloads
Pids == {4}

\* processor indexes of record headers
Cpus == {0}

Times == 1..MaxTime

-----------------------------------------------------------------------------
(* Addresses *)

\* 0xFFFF000000000001, 0xFFFF000000000002 and 0x1000
K1 == <<65535, 0, 0, 1>>
K2 == <<65535, 0, 0, 2>>
U1 == <<0, 0, 0, 4096>>

\* a >= b for two u64 values given as limbs
RECURSIVE GeqFrom(_, _, _)
GeqFrom(a, b, k) ==
    IF k > Len(a) THEN TRUE
    ELSE IF a[k] > b[k] THEN TRUE
    ELSE IF a[k] < b[k] THEN FALSE
    ELSE GeqFrom(a, b, k + 1)

U64Geq(a, b) == GeqFrom(a, b, 1)

\* 0x80000000
KernelStart32 == <<0, 0, 32768, 0>>

\* 0xFFFF000000000000
KernelStart64 == <<65535, 0, 0, 0>>

\* is_kernel_address with > for >=
is_kernel_address_Gt(ip, pointer_size) ==
    IF pointer_size = 4 THEN ip # KernelStart32 /\ U64Geq(ip, KernelStart32)
    ELSE ip # KernelStart64 /\ U64Geq(ip, KernelStart64)

is_kernel_address(ip, pointer_size) ==
    IF pointer_size = 4 THEN U64Geq(ip, KernelStart32)
    ELSE U64Geq(ip, KernelStart64)


-----------------------------------------------------------------------------
(* Data model *)

\* Option<Vec<u64>>
None == [some |-> FALSE, v |-> <<>>]

Some(s) == [some |-> TRUE, v |-> s]

StackName == "MSNT_SystemTrace/StackWalk/Stack"

SampleProfName == "MSNT_SystemTrace/PerfInfo/SampleProf"

CSwitchName == "MSNT_SystemTrace/Thread/CSwitch"

ProcessNames == {"MSNT_SystemTrace/Process/Start"}

OtherNames == {"MSNT_SystemTrace/Thread/Start"}

ImageNames == {"a.exe"}

\* the payload address arrays of the stack records: a decoded buffer that is
\* empty, kernel-ending or user-ending; AllStacks adds a second kernel
\* fragment and fragments of two addresses
Stacks == {<<>>, <<K1>>, <<U1>>}

AllStacks == Stacks \cup {<<K2>>, <<U1, K1>>, <<K1, U1>>}

\* 0x7FFFFFFF, 0x80000000, 0xFFFEFFFFFFFFFFFF and 0xFFFF000000000000
Below32 == <<0, 0, 32767, 65535>>
Below64 == <<65534, 65535, 65535, 65535>>

\* fragments whose addresses lie on both sides of the two kernel boundaries
BoundaryStacks ==
    {<<KernelStart32>>, <<Below64>>, <<KernelStart64>>,
     <<KernelStart64, Below32>>, <<KernelStart32, KernelStart64>>}

\* the two bytes of a 16-bit limb, low byte first
LimbBytes(l) == <<l % 256, l \div 256>>

\* the 8 bytes from_ne_bytes reads an address from (the traces come from
\* little-endian machines)
to_ne_bytes(a) ==
    LimbBytes(a[4]) \o LimbBytes(a[3]) \o LimbBytes(a[2]) \o LimbBytes(a[1])

\* u64::from_ne_bytes(a.try_into().unwrap())
from_ne_bytes(b) ==
    <<b[8] * 256 + b[7], b[6] * 256 + b[5], b[4] * 256 + b[3], b[2] * 256 + b[1]>>

\* parser.buffer.chunks_exact(8).map(from_ne_bytes).collect(): a remainder of
\* fewer than 8 bytes is left out
RECURSIVE chunks_exact_collect(_)
chunks_exact_collect(buffer) ==
    IF Len(buffer) < 8 THEN <<>>
    ELSE <<from_ne_bytes(SubSeq(buffer, 1, 8))>>
             \o chunks_exact_collect(SubSeq(buffer, 9, Len(buffer)))

\* the payload bytes that hold the addresses of a stack
RECURSIVE BufferOf(_)
BufferOf(stack) ==
    IF stack = <<>> THEN <<>>
    ELSE to_ne_bytes(stack[1]) \o BufferOf(SubSeq(stack, 2, Len(stack)))

\* the payloads of the stack records of a trace
Buffers(stacks) == {BufferOf(stack) : stack \in stacks}

\* payloads whose length is not a multiple of 8: 4 bytes, 12 bytes, 9 bytes
MalformedBuffers ==
    {<<1, 2, 3, 4>>, BufferOf(<<U1>>) \o <<1, 2, 3, 4>>, BufferOf(<<K1>>) \o <<0>>}

\* struct Event, as pushed by the callback
NewEvent(name, timestamp, thread_id, cpu) ==
    [name |-> name, timestamp |-> timestamp, thread_id |-> thread_id,
     stack |-> None, cpu |-> cpu, bad_stack |-> FALSE]

\* ThreadState::new
ThreadState_new(process_id) ==
    [process_id |-> process_id, events_with_unfinished_kernel_stacks |-> <<>>]

\* Vec::contains
Contains(vec, x) == \E k \in 1..Len(vec) : vec[k] = x

\* the places of the callback that can panic
NoPanic == "none"

PanicLastUnwrap == "stack.last().unwrap()"

PanicLenMinusOne == "events.len() - 1"

PanicAssertContains == "assert!(contains(&i))"

PanicStackUnwrap == "stack.as_mut().unwrap()"

\* what the println! calls of one record print
NoDiags == <<>>

DiagAmbiguous(first_event, i) == <<"more than one associated event", first_event, i>>

DiagMissing(t_pending, t_event) == <<"missing userspace stack?", t_pending, t_event>>

DiagNoMatch == <<"no matching event">>

-----------------------------------------------------------------------------
(* The correlator: the scan state c holds the Timeline, the fragment's      *)
(* thread's pending Vec, found_event (-1 for None), the lines printed, the  *)
(* indices whose timestamp and thread matched so far (in scan order) and    *)
(* the panic that ended the scan, if one did.                               *)

\* ExtendUnfinished that extends only the last pending entry
ExtendUnfinished_LastOnly(ev, pending, k, stack) ==
    IF pending = <<>> THEN [events |-> ev, panic |-> NoPanic]
    ELSE LET e == pending[Len(pending)] + 1
         IN IF e > Len(ev) \/ ~ev[e].stack.some
            THEN [events |-> ev, panic |-> PanicStackUnwrap]
            ELSE [events |-> [ev EXCEPT ![e].stack = Some(@.v \o stack)],
                  panic |-> NoPanic]

\* ExtendUnfinished that overwrites the pending stacks with the fragment
RECURSIVE ExtendUnfinished_Overwrite(_, _, _, _)
ExtendUnfinished_Overwrite(ev, pending, k, stack) ==
    IF k > Len(pending) THEN [events |-> ev, panic |-> NoPanic]
    ELSE LET e == pending[k] + 1
         IN IF e > Len(ev) \/ ~ev[e].stack.some
            THEN [events |-> ev, panic |-> PanicStackUnwrap]
            ELSE ExtendUnfinished_Overwrite(
                     [ev EXCEPT ![e].stack = Some(stack)],
                     pending, k + 1, stack)

\* for e in &thread.events_with_unfinished_kernel_stacks { events[*e].stack.as_mut().unwrap().extend_from_slice(..) }
RECURSIVE ExtendUnfinished(_, _, _, _)
ExtendUnfinished(ev, pending, k, stack) ==
    IF k > Len(pending) THEN [events |-> ev, panic |-> NoPanic]
    ELSE LET e == pending[k] + 1
         IN IF e > Len(ev) \/ ~ev[e].stack.some
            THEN [events |-> ev, panic |-> PanicStackUnwrap]
            ELSE ExtendUnfinished(
                     [ev EXCEPT ![e].stack = Some(ev[e].stack.v \o stack)],
                     pending, k + 1, stack)

\* MergeKernel that replaces an existing stack by the later fragment
MergeKernel_Replace(c, i, stack) ==
    IF c.events[i + 1].stack.some
    THEN IF Contains(c.pending, i)
         THEN [c EXCEPT !.events[i + 1].stack = Some(stack)]
         ELSE [c EXCEPT !.panic = PanicAssertContains]
    ELSE [c EXCEPT !.pending = Append(@, i),
                   !.events[i + 1].stack = Some(stack)]

\* MergeKernel that registers the index at every kernel-ending fragment
MergeKernel_PushAgain(c, i, stack) ==
    IF c.events[i + 1].stack.some
    THEN IF Contains(c.pending, i)
         THEN [c EXCEPT !.pending = Append(@, i),
                        !.events[i + 1].stack = Some(@.v \o stack)]
         ELSE [c EXCEPT !.panic = PanicAssertContains]
    ELSE [c EXCEPT !.pending = Append(@, i),
                   !.events[i + 1].stack = Some(stack)]

\* MergeKernel that resets the pending Vec to the index it registers
MergeKernel_Reset(c, i, stack) ==
    IF c.events[i + 1].stack.some
    THEN IF Contains(c.pending, i)
         THEN [c EXCEPT !.events[i + 1].stack = Some(@.v \o stack)]
         ELSE [c EXCEPT !.panic = PanicAssertContains]
    ELSE [c EXCEPT !.pending = <<i>>,
                   !.events[i + 1].stack = Some(stack)]

\* MergeKernel that registers the index without storing the fragment
MergeKernel_NoStore(c, i, stack) ==
    IF c.events[i + 1].stack.some
    THEN IF Contains(c.pending, i)
         THEN [c EXCEPT !.events[i + 1].stack = Some(@.v \o stack)]
         ELSE [c EXCEPT !.panic = PanicAssertContains]
    ELSE [c EXCEPT !.pending = Append(@, i)]

\* the ends_in_kernel arm of the merge, for the matched index i
MergeKernel(c, i, stack) ==
    IF c.events[i + 1].stack.some
    THEN IF Contains(c.pending, i)
         THEN [c EXCEPT !.events[i + 1].stack = Some(@.v \o stack)]
         ELSE [c EXCEPT !.panic = PanicAssertContains]
    ELSE [c EXCEPT !.pending = Append(@, i),
                   !.events[i + 1].stack = Some(stack)]

\* FlagLastUnfinished without the comparison of the timestamps
FlagLastUnfinished_Always(c, i) ==
    IF c.pending = <<>> THEN c
    ELSE LET l == c.pending[Len(c.pending)] + 1
         IN [c EXCEPT !.events[l].bad_stack = TRUE,
                      !.diags = Append(@, DiagMissing(c.events[l].timestamp,
                                                      c.events[i + 1].timestamp))]

\* FlagLastUnfinished with <= for <
FlagLastUnfinished_Le(c, i) ==
    IF c.pending = <<>> THEN c
    ELSE LET l == c.pending[Len(c.pending)] + 1
         IN IF c.events[l].timestamp <= c.events[i + 1].timestamp
            THEN [c EXCEPT !.events[l].bad_stack = TRUE,
                           !.diags = Append(@, DiagMissing(c.events[l].timestamp,
                                                           c.events[i + 1].timestamp))]
            ELSE c

\* if let Some(last) = pending.last() { if events[last].timestamp < events[i].timestamp { .. bad_stack = true } }
FlagLastUnfinished(c, i) ==
    IF c.pending = <<>> THEN c
    ELSE LET l == c.pending[Len(c.pending)] + 1
         IN IF c.events[l].timestamp < c.events[i + 1].timestamp
            THEN [c EXCEPT !.events[l].bad_stack = TRUE,
                           !.diags = Append(@, DiagMissing(c.events[l].timestamp,
                                                           c.events[i + 1].timestamp))]
            ELSE c

\* MergeUser that also extends the stack the matched event already has
MergeUser_ExtendMatched(c, i, stack) ==
    LET x == ExtendUnfinished(c.events, c.pending, 1, stack)
        c1 == [c EXCEPT !.events = x.events]
    IN IF x.panic # NoPanic THEN [c1 EXCEPT !.panic = x.panic]
       ELSE IF c1.events[i + 1].stack.some /\ ~Contains(c1.pending, i)
       THEN [c1 EXCEPT !.panic = PanicAssertContains]
       ELSE LET c2 == IF c1.events[i + 1].stack.some
                      THEN [c1 EXCEPT !.events[i + 1].stack = Some(@.v \o stack)]
                      ELSE [c1 EXCEPT !.events[i + 1].stack = Some(stack)]
                c3 == FlagLastUnfinished(c2, i)
            IN [c3 EXCEPT !.pending = <<>>]

\* MergeUser without the clear() of the pending Vec
MergeUser_NoClear(c, i, stack) ==
    LET x == ExtendUnfinished(c.events, c.pending, 1, stack)
        c1 == [c EXCEPT !.events = x.events]
    IN IF x.panic # NoPanic THEN [c1 EXCEPT !.panic = x.panic]
       ELSE IF c1.events[i + 1].stack.some /\ ~Contains(c1.pending, i)
       THEN [c1 EXCEPT !.panic = PanicAssertContains]
       ELSE LET c2 == IF c1.events[i + 1].stack.some THEN c1
                      ELSE [c1 EXCEPT !.events[i + 1].stack = Some(stack)]
            IN FlagLastUnfinished(c2, i)

\* the user-mode arm of the merge, for the matched index i
MergeUser(c, i, stack) ==
    LET x == ExtendUnfinished(c.events, c.pending, 1, stack)
        c1 == [c EXCEPT !.events = x.events]
    IN IF x.panic # NoPanic THEN [c1 EXCEPT !.panic = x.panic]
       ELSE IF c1.events[i + 1].stack.some /\ ~Contains(c1.pending, i)
       THEN [c1 EXCEPT !.panic = PanicAssertContains]
       ELSE LET c2 == IF c1.events[i + 1].stack.some THEN c1
                      ELSE [c1 EXCEPT !.events[i + 1].stack = Some(stack)]
                c3 == FlagLastUnfinished(c2, i)
            IN [c3 EXCEPT !.pending = <<>>]

\* Matched that merges the fragment into the newest match only
Matched_NewestOnly(c, i, stack, ends_in_kernel) ==
    IF c.found_event # -1
    THEN [c EXCEPT !.diags = Append(@, DiagAmbiguous(c.found_event, i)),
                   !.matched = Append(@, i),
                   !.found_event = i]
    ELSE LET c1 == [c EXCEPT !.matched = Append(@, i)]
             c2 == IF ends_in_kernel THEN MergeKernel(c1, i, stack)
                   ELSE MergeUser(c1, i, stack)
         IN IF c2.panic # NoPanic THEN c2
            ELSE [c2 EXCEPT !.found_event = i]

\* the body of `if timestamp and thread_id match`, up to found_event = Some(i)
Matched(c, i, stack, ends_in_kernel) ==
    LET c1 == IF c.found_event # -1
              THEN [c EXCEPT !.diags = Append(@, DiagAmbiguous(c.found_event, i)),
                             !.matched = Append(@, i)]
              ELSE [c EXCEPT !.matched = Append(@, i)]
        c2 == IF ends_in_kernel THEN MergeKernel(c1, i, stack)
              ELSE MergeUser(c1, i, stack)
    IN IF c2.panic # NoPanic THEN c2
       ELSE [c2 EXCEPT !.found_event = i]

\* Scan that matches on the timestamp alone
RECURSIVE Scan_AnyThread(_, _, _, _, _, _)
Scan_AnyThread(c, i, timestamp, thread_id, stack, ends_in_kernel) ==
    IF ~(i > 0) \/ c.panic # NoPanic THEN c
    ELSE IF c.events[i + 1].timestamp < timestamp THEN c
    ELSE IF c.events[i + 1].timestamp = timestamp
         THEN Scan_AnyThread(Matched(c, i, stack, ends_in_kernel), i - 1,
                             timestamp, thread_id, stack, ends_in_kernel)
         ELSE Scan_AnyThread(c, i - 1, timestamp, thread_id, stack, ends_in_kernel)

\* Scan that stops at the first entry whose timestamp differs
RECURSIVE Scan_BreakOnOther(_, _, _, _, _, _)
Scan_BreakOnOther(c, i, timestamp, thread_id, stack, ends_in_kernel) ==
    IF ~(i > 0) \/ c.panic # NoPanic THEN c
    ELSE IF c.events[i + 1].timestamp # timestamp THEN c
    ELSE IF /\ c.events[i + 1].timestamp = timestamp
            /\ c.events[i + 1].thread_id = thread_id
         THEN Scan_BreakOnOther(Matched(c, i, stack, ends_in_kernel), i - 1,
                                timestamp, thread_id, stack, ends_in_kernel)
         ELSE Scan_BreakOnOther(c, i - 1, timestamp, thread_id, stack, ends_in_kernel)

\* while i > 0 { .. i -= 1 }
RECURSIVE Scan(_, _, _, _, _, _)
Scan(c, i, timestamp, thread_id, stack, ends_in_kernel) ==
    IF ~(i > 0) \/ c.panic # NoPanic THEN c
    ELSE IF c.events[i + 1].timestamp < timestamp THEN c
    ELSE IF /\ c.events[i + 1].timestamp = timestamp
            /\ c.events[i + 1].thread_id = thread_id
         THEN Scan(Matched(c, i, stack, ends_in_kernel), i - 1,
                   timestamp, thread_id, stack, ends_in_kernel)
         ELSE Scan(c, i - 1, timestamp, thread_id, stack, ends_in_kernel)

\* let ends_in_kernel = is_kernel_address(*stack.last().unwrap(), 8), for a non-empty stack
ends_in_kernel_of(stack) == is_kernel_address(stack[Len(stack)], 8)

\* Correlate with the test of found_event inverted
Correlate_DiagWhenFound(ev, pending, timestamp, thread_id, stack) ==
    LET c0 == [events |-> ev, pending |-> pending, found_event |-> -1,
               diags |-> NoDiags, matched |-> <<>>, panic |-> NoPanic]
    IN IF stack = <<>> THEN [c0 EXCEPT !.panic = PanicLastUnwrap]
       ELSE IF Len(ev) = 0 THEN [c0 EXCEPT !.panic = PanicLenMinusOne]
       ELSE LET ends_in_kernel == ends_in_kernel_of(stack)
                c == Scan(c0, Len(ev) - 1, timestamp, thread_id, stack, ends_in_kernel)
            IN IF c.panic = NoPanic /\ c.found_event # -1
               THEN [c EXCEPT !.diags = Append(@, DiagNoMatch)]
               ELSE c

\* the "MSNT_SystemTrace/StackWalk/Stack" arm, after the thread lookup
Correlate(ev, pending, timestamp, thread_id, stack) ==
    LET c0 == [events |-> ev, pending |-> pending, found_event |-> -1,
               diags |-> NoDiags, matched |-> <<>>, panic |-> NoPanic]
    IN IF stack = <<>> THEN [c0 EXCEPT !.panic = PanicLastUnwrap]
       ELSE IF Len(ev) = 0 THEN [c0 EXCEPT !.panic = PanicLenMinusOne]
       ELSE LET ends_in_kernel == ends_in_kernel_of(stack)
                c == Scan(c0, Len(ev) - 1, timestamp, thread_id, stack, ends_in_kernel)
            IN IF c.panic = NoPanic /\ c.found_event = -1
               THEN [c EXCEPT !.diags = Append(@, DiagNoMatch)]
               ELSE c


-----------------------------------------------------------------------------
(* State *)

\* no entry of the HashMap `threads` for a thread id
NoThread == [present |-> FALSE, process_id |-> 0,
             events_with_unfinished_kernel_stacks |-> <<>>]

\* no entry of the HashMap `processes` for a process id
NoImage == ""

\* the last record was not a stack record (of a stack record `last` keeps the
\* payload's EventTimeStamp, StackThread, decoded addresses and length in
\* bytes, the indices the scan matched and the thread's pending Vec before)
NoFragment == [timestamp |-> 0, thread_id |-> 0, stack |-> <<>>,
               matched |-> <<>>, pending_before |-> <<>>, buffer_len |-> 0]

\* no record has been handled yet
NoRecord == [name |-> "", header_thread_id |-> 0, payload_thread_id |-> 0]

\* a record: s.name(), e.EventHeader.ThreadId and the thread id its payload
\* names (StackThread, ThreadId, NewThreadId; 0 for a payload without one)
Record(name, header_thread_id, payload_thread_id) ==
    [name |-> name, header_thread_id |-> header_thread_id,
     payload_thread_id |-> payload_thread_id]

\* the callback is not inside the `while i > 0` loop
NoScan == [active |-> FALSE]

Init ==
    /\ events = <<>>
    /\ threads = [t \in Tids |-> NoThread]
    /\ processes = [p \in Pids |-> NoImage]
    /\ panic = NoPanic
    /\ diags = NoDiags
    /\ last = NoFragment
    /\ record = NoRecord
    /\ scan = NoScan

\* thread.events_with_unfinished_kernel_stacks of thread id t
Pending(t) == threads[t].events_with_unfinished_kernel_stacks

\* the trace source delivers records in non-decreasing timestamp order
InOrder(timestamp) ==
    IF events = <<>> THEN TRUE ELSE events[Len(events)].timestamp <= timestamp

\* the header timestamps the next record of such a source can have
InOrderTimes == {timestamp \in Times : InOrder(timestamp)}

\* the callback runs for one more record of a trace of at most n records
Running(n) == panic = NoPanic /\ scan = NoScan /\ Len(events) < n

\* threads.entry(thread_id): Occupied => as is, Vacant => insert(ThreadState::new(process_id))
EntryOrInsert(thread_id, process_id) ==
    IF threads[thread_id].present THEN threads
    ELSE [threads EXCEPT ![thread_id] =
             [present |-> TRUE] @@ ThreadState_new(process_id)]

\* Push that inserts the new entry at the front
Push_Front(ev, name, timestamp, thread_id, cpu) ==
    <<NewEvent(name, timestamp, thread_id, cpu)>> \o ev

\* events.push(Event { .. stack: None, bad_stack: false })
Push(ev, name, timestamp, thread_id, cpu) ==
    Append(ev, NewEvent(name, timestamp, thread_id, cpu))

-----------------------------------------------------------------------------
(* The callback, one action per kind of record *)

\* "MSNT_SystemTrace/StackWalk/Stack"
StackWalk(n, buffers, times) ==
    \E TimeStamp \in times, ThreadId \in StackHeaderTids, cpu \in Cpus,
       StackThread \in Tids, StackProcess \in Pids,
       EventTimeStamp \in Times, buffer \in buffers :
        /\ Running(n)
        /\ LET threads1 == EntryOrInsert(StackThread, StackProcess)
               stack == chunks_exact_collect(buffer)
               c == Correlate(events,
                              threads1[StackThread].events_with_unfinished_kernel_stacks,
                              EventTimeStamp, StackThread, stack)
           IN /\ threads' = [threads1 EXCEPT
                     ![StackThread].events_with_unfinished_kernel_stacks = c.pending]
              /\ panic' = c.panic
              /\ events' = IF c.panic # NoPanic THEN c.events
                           ELSE Push(c.events, StackName, TimeStamp, ThreadId, cpu)
              /\ diags' = c.diags
              /\ last' = [timestamp |-> EventTimeStamp,
                          thread_id |-> StackThread, stack |-> stack,
                          matched |-> c.matched,
                          pending_before |-> Pending(StackThread),
                          buffer_len |-> Len(buffer)]
              /\ record' = Record(StackName, ThreadId, StackThread)
        /\ UNCHANGED <<processes, scan>>

\* SampleProf that keeps the header's thread id for the entry
SampleProf_HeaderThread(n, times) ==
    \E TimeStamp \in times, ThreadId \in StackHeaderTids, cpu \in Cpus,
       PayloadThreadId \in Tids :
        /\ Running(n)
        /\ events' = Push(events, SampleProfName, TimeStamp, ThreadId, cpu)
        /\ record' = Record(SampleProfName, ThreadId, PayloadThreadId)
        /\ diags' = NoDiags
        /\ last' = NoFragment
        /\ UNCHANGED <<threads, processes, panic, scan>>

\* "MSNT_SystemTrace/PerfInfo/SampleProf": thread_id = parser.parse("ThreadId")
SampleProf(n, times) ==
    \E TimeStamp \in times, ThreadId \in StackHeaderTids, cpu \in Cpus,
       PayloadThreadId \in Tids :
        /\ Running(n)
        /\ events' = Push(events, SampleProfName, TimeStamp, PayloadThreadId, cpu)
        /\ record' = Record(SampleProfName, ThreadId, PayloadThreadId)
        /\ diags' = NoDiags
        /\ last' = NoFragment
        /\ UNCHANGED <<threads, processes, panic, scan>>

\* "MSNT_SystemTrace/Thread/CSwitch": thread_id = parser.parse("NewThreadId")
CSwitch(n, times) ==
    \E TimeStamp \in times, ThreadId \in StackHeaderTids, cpu \in Cpus,
       NewThreadId \in Tids :
        /\ Running(n)
        /\ events' = Push(events, CSwitchName, TimeStamp, NewThreadId, cpu)
        /\ record' = Record(CSwitchName, ThreadId, NewThreadId)
        /\ diags' = NoDiags
        /\ last' = NoFragment
        /\ UNCHANGED <<threads, processes, panic, scan>>

\* Process/Start, Process/DCStart, Process/DCEnd: processes.insert(process_id, image_file_name)
ProcessRecord(n, times) ==
    \E name \in ProcessNames, TimeStamp \in times, ThreadId \in Tids, cpu \in Cpus,
       ImageFileName \in ImageNames, ProcessId \in Pids :
        /\ Running(n)
        /\ processes' = [processes EXCEPT ![ProcessId] = ImageFileName]
        /\ events' = Push(events, name, TimeStamp, ThreadId, cpu)
        /\ record' = Record(name, ThreadId, 0)
        /\ diags' = NoDiags
        /\ last' = NoFragment
        /\ UNCHANGED <<threads, panic, scan>>

\* any other record with a schema
OtherRecord(n, times) ==
    \E name \in OtherNames, TimeStamp \in times, ThreadId \in Tids, cpu \in Cpus :
        /\ Running(n)
        /\ events' = Push(events, name, TimeStamp, ThreadId, cpu)
        /\ record' = Record(name, ThreadId, 0)
        /\ diags' = NoDiags
        /\ last' = NoFragment
        /\ UNCHANGED <<threads, processes, panic, scan>>

\* The same stack record, one iteration of `while i > 0` at a time.

\* lines 56-74: the thread lookup, the decoding and `let mut i = events.len() - 1`
\* for a payload with addresses and a Timeline with entries
ScanBegin(n, buffers, times) ==
    \E TimeStamp \in times, ThreadId \in StackHeaderTids, cpu \in Cpus,
       StackThread \in Tids, StackProcess \in Pids,
       EventTimeStamp \in Times, buffer \in buffers :
        /\ Running(n)
        /\ events # <<>>
        /\ chunks_exact_collect(buffer) # <<>>
        /\ threads' = EntryOrInsert(StackThread, StackProcess)
        /\ scan' = [active |-> TRUE, i |-> Len(events) - 1, found_event |-> -1,
                    matched |-> <<>>, examined |-> 0, left |-> FALSE,
                    timestamp |-> EventTimeStamp, thread_id |-> StackThread,
                    stack |-> chunks_exact_collect(buffer),
                    buffer_len |-> Len(buffer),
                    TimeStamp |-> TimeStamp, ThreadId |-> ThreadId, cpu |-> cpu,
                    pending_before |-> Pending(StackThread),
                    events_before |-> events]
        /\ diags' = NoDiags
        /\ last' = NoFragment
        /\ record' = Record(StackName, ThreadId, StackThread)
        /\ UNCHANGED <<events, processes, panic>>

\* what `last` keeps of the stack record whose scan is under way
ScanFragment(matched) ==
    [timestamp |-> scan.timestamp, thread_id |-> scan.thread_id,
     stack |-> scan.stack, matched |-> matched,
     pending_before |-> scan.pending_before, buffer_len |-> scan.buffer_len]

\* ScanStep with a `continue` before `i -= 1` for an entry of another thread
ScanStep_Continue ==
    /\ scan # NoScan /\ panic = NoPanic
    /\ scan.i > 0 /\ ~scan.left
    /\ LET i == scan.i
           c == [events |-> events, pending |-> Pending(scan.thread_id),
                 found_event |-> scan.found_event, diags |-> diags,
                 matched |-> scan.matched, panic |-> NoPanic]
           c2 == Matched(c, i, scan.stack, ends_in_kernel_of(scan.stack))
       IN IF events[i + 1].timestamp < scan.timestamp
          THEN /\ scan' = [scan EXCEPT !.left = TRUE, !.examined = @ + 1]
               /\ UNCHANGED <<events, threads, panic, diags, last>>
          ELSE IF /\ events[i + 1].timestamp = scan.timestamp
                  /\ events[i + 1].thread_id = scan.thread_id
          THEN /\ events' = c2.events
               /\ threads' = [threads EXCEPT
                      ![scan.thread_id].events_with_unfinished_kernel_stacks = c2.pending]
               /\ diags' = c2.diags
               /\ panic' = c2.panic
               /\ IF c2.panic # NoPanic
                  THEN scan' = NoScan /\ last' = ScanFragment(c2.matched)
                  ELSE /\ scan' = [scan EXCEPT !.i = i - 1, !.examined = @ + 1,
                                               !.found_event = c2.found_event,
                                               !.matched = c2.matched]
                       /\ UNCHANGED last
          ELSE IF events[i + 1].thread_id # scan.thread_id
          THEN /\ scan' = [scan EXCEPT !.examined = @ + 1]
               /\ UNCHANGED <<events, threads, panic, diags, last>>
          ELSE /\ scan' = [scan EXCEPT !.i = i - 1, !.examined = @ + 1]
               /\ UNCHANGED <<events, threads, panic, diags, last>>
    /\ UNCHANGED <<processes, record>>

\* lines 75-167: one iteration of `while i > 0`: break, or merge on a match,
\* and `i -= 1`; a panic of the merge ends the run
ScanStep ==
    /\ scan # NoScan /\ panic = NoPanic
    /\ scan.i > 0 /\ ~scan.left
    /\ LET i == scan.i
           c == [events |-> events, pending |-> Pending(scan.thread_id),
                 found_event |-> scan.found_event, diags |-> diags,
                 matched |-> scan.matched, panic |-> NoPanic]
           c2 == Matched(c, i, scan.stack, ends_in_kernel_of(scan.stack))
       IN IF events[i + 1].timestamp < scan.timestamp
          THEN /\ scan' = [scan EXCEPT !.left = TRUE, !.examined = @ + 1]
               /\ UNCHANGED <<events, threads, panic, diags, last>>
          ELSE IF /\ events[i + 1].timestamp = scan.timestamp
                  /\ events[i + 1].thread_id = scan.thread_id
          THEN /\ events' = c2.events
               /\ threads' = [threads EXCEPT
                      ![scan.thread_id].events_with_unfinished_kernel_stacks = c2.pending]
               /\ diags' = c2.diags
               /\ panic' = c2.panic
               /\ IF c2.panic # NoPanic
                  THEN scan' = NoScan /\ last' = ScanFragment(c2.matched)
                  ELSE /\ scan' = [scan EXCEPT !.i = i - 1, !.examined = @ + 1,
                                               !.found_event = c2.found_event,
                                               !.matched = c2.matched]
                       /\ UNCHANGED last
          ELSE /\ scan' = [scan EXCEPT !.i = i - 1, !.examined = @ + 1]
               /\ UNCHANGED <<events, threads, panic, diags, last>>
    /\ UNCHANGED <<processes, record>>

\* lines 169-203: the loop is left: the "no matching event" line and events.push
ScanEnd ==
    /\ scan # NoScan /\ panic = NoPanic
    /\ (scan.i = 0 \/ scan.left)
    /\ diags' = IF scan.found_event = -1 THEN Append(diags, DiagNoMatch) ELSE diags
    /\ events' = Push(events, StackName, scan.TimeStamp, scan.ThreadId, scan.cpu)
    /\ last' = ScanFragment(scan.matched)
    /\ scan' = NoScan
    /\ UNCHANGED <<threads, processes, panic, record>>

\* short traces of sample and stack records in which the scan of a stack
\* record takes one step per iteration (on an empty Timeline the record
\* panics before the loop, in one step)
NextScan ==
    \/ SampleProf(MaxScan, InOrderTimes)
    \/ events = <<>> /\ StackWalk(MaxScan, Buffers(Stacks \ {<<>>}), InOrderTimes)
    \/ ScanBegin(MaxScan, Buffers(Stacks \ {<<>>}), InOrderTimes)
    \/ ScanStep
    \/ ScanEnd

\* the callback is sequential code: a loop that can take its next iteration,
\* or leave, does so
SpecScan == Init /\ [][NextScan]_vars /\ WF_vars(ScanStep) /\ WF_vars(ScanEnd)

\* traces of sample and stack records: for the correlator every other kind of
\* record is, like a sample, one more Timeline entry with a timestamp and a
\* thread id
Next ==
    \/ StackWalk(MaxEvents, Buffers(Stacks), InOrderTimes)
    \/ SampleProf(MaxEvents, InOrderTimes)

Spec == Init /\ [][Next]_vars

\* shorter traces of sample and stack records, with more kinds of fragments
NextFrag ==
    \/ StackWalk(MaxFrag, Buffers(AllStacks), InOrderTimes)
    \/ SampleProf(MaxFrag, InOrderTimes)

SpecFrag == Init /\ [][NextFrag]_vars

\* short traces of records of every kind, malformed stack payloads included
NextAll ==
    \/ StackWalk(MaxAll, Buffers(Stacks) \cup MalformedBuffers, InOrderTimes)
    \/ SampleProf(MaxAll, InOrderTimes)
    \/ CSwitch(MaxAll, InOrderTimes)
    \/ ProcessRecord(MaxAll, InOrderTimes)
    \/ OtherRecord(MaxAll, InOrderTimes)

SpecAll == Init /\ [][NextAll]_vars

\* short traces of sample and stack records whose addresses lie at the
\* boundaries of kernel space
NextAddr ==
    \/ StackWalk(MaxAddr, Buffers(BoundaryStacks), InOrderTimes)
    \/ SampleProf(MaxAddr, InOrderTimes)

SpecAddr == Init /\ [][NextAddr]_vars

\* short traces of sample and stack records whose header timestamps come in
\* any order: the callback itself does not look at the order of the records
NextAny ==
    \/ StackWalk(MaxAny, Buffers(Stacks \ {<<>>}), Times)
    \/ SampleProf(MaxAny, Times)

SpecAny == Init /\ [][NextAny]_vars

-----------------------------------------------------------------------------
(* Vocabulary of the properties *)

\* the Timeline indices a trace of the model can hold
Indices == 0..(MaxEvents + MaxFrag + MaxAll + MaxAddr + MaxAny + MaxScan)

\* entry i of the Timeline before and after a step
Ev(i) == events[i + 1]

EvNext(i) == events'[i + 1]

HasEv(i) == i + 1 <= Len(events)

PendingNext(t) == threads'[t].events_with_unfinished_kernel_stacks

\* the step handled a stack record that carried a user-ending or a kernel-ending fragment
FragmentStep == last' # NoFragment /\ last'.stack # <<>>

UserFragmentStep == FragmentStep /\ ~ends_in_kernel_of(last'.stack)

KernelFragmentStep == FragmentStep /\ ends_in_kernel_of(last'.stack)

\* the same, of the state a step has led to
UserFragmentDone == last # NoFragment /\ last.stack # <<>> /\ ~ends_in_kernel_of(last.stack)

KernelFragmentDone == last # NoFragment /\ last.stack # <<>> /\ ends_in_kernel_of(last.stack)

\* how often x occurs in a Vec
Count(vec, x) == Cardinality({k \in 1..Len(vec) : vec[k] = x})

\* s is a prefix of t
IsPrefix(s, t) == Len(s) <= Len(t) /\ SubSeq(t, 1, Len(s)) = s

\* s ends with t
IsSuffix(t, s) == Len(t) <= Len(s) /\ SubSeq(s, Len(s) - Len(t) + 1, Len(s)) = t

\* the merge of the first index the scan of the step matched ran to its end
FirstMergeDone == panic' = NoPanic \/ Len(last'.matched) > 1

-----------------------------------------------------------------------------
(* C1 *)

\* C1 (Scenario C): from a state where event k of thread T holds a stack that
\* ends in kernel space and is the only pending entry of T, and a later event n
\* with the same timestamp and thread has no stack, a user-ending fragment of
\* that timestamp and thread is processed without a panic, appends its
\* addresses to k's stack, becomes n's stack, flags neither and empties T's
\* pending set.
C1_ScenarioC ==
    [][\A T \in Tids, k \in Indices, n \in Indices :
        (/\ HasEv(k) /\ HasEv(n) /\ k < n
         /\ Pending(T) = <<k>>
         /\ Ev(k).stack.some /\ ends_in_kernel_of(Ev(k).stack.v)
         /\ ~Ev(n).stack.some
         /\ Ev(k).thread_id = T /\ Ev(n).thread_id = T
         /\ Ev(k).timestamp = Ev(n).timestamp
         /\ UserFragmentStep
         /\ last'.thread_id = T /\ last'.timestamp = Ev(n).timestamp)
        => /\ panic' = NoPanic
           /\ EvNext(k).stack = Some(Ev(k).stack.v \o last'.stack)
           /\ EvNext(n).stack = Some(last'.stack)
           /\ ~EvNext(k).bad_stack /\ ~EvNext(n).bad_stack
           /\ PendingNext(T) = <<>>]_vars

-----------------------------------------------------------------------------
(* C2 *)

\* C2: whatever records arrive in non-decreasing timestamp order, the
\* assert!(..contains(&i)) of the merge step never fails.
C2_AssertNeverFails == panic # PanicAssertContains

-----------------------------------------------------------------------------
(* C3 *)

\* C3, as claimed: when a user-mode fragment matches an event E, every event
\* of the thread's pending set with a timestamp below E's is flagged
\* bad_stack afterwards, whatever its position in the pending sequence.
C3_EveryOlderPendingFlagged ==
    [][(UserFragmentStep /\ last'.matched # <<>> /\ FirstMergeDone)
        => \A k \in 1..Len(Pending(last'.thread_id)) :
              LET e == Pending(last'.thread_id)[k]
              IN Ev(e).timestamp < Ev(last'.matched[1]).timestamp
                     => EvNext(e).bad_stack]_vars

\* C3, amended: only the last entry of the pending sequence can be flagged;
\* it is flagged exactly when its timestamp is strictly below E's and E's
\* merge did not panic; every other pending entry stays unflagged.
C3_OnlyLastPendingFlagged ==
    [][(UserFragmentStep /\ last'.matched # <<>>)
        => LET P == Pending(last'.thread_id)
               E == last'.matched[1]
           IN \A k \in 1..Len(P) :
                 EvNext(P[k]).bad_stack =
                     (/\ k = Len(P)
                      /\ Ev(P[k]).timestamp < Ev(E).timestamp
                      /\ FirstMergeDone)]_vars

\* C3 witness: a user-mode fragment matched E while two events were pending,
\* both older than E; the last one is flagged and the other one is not.
C3_Witness ==
    /\ UserFragmentDone /\ last.matched # <<>>
    /\ Len(last.pending_before) = 2
    /\ LET P == last.pending_before
           E == last.matched[1]
       IN /\ events[P[1] + 1].timestamp < events[E + 1].timestamp
          /\ events[P[2] + 1].timestamp < events[E + 1].timestamp
          /\ ~events[P[1] + 1].bad_stack
          /\ events[P[2] + 1].bad_stack

-----------------------------------------------------------------------------
(* C4 *)

\* C4 (Scenario A): the scan examines index 0 too: when the Timeline holds one
\* event without stack and a user-ending fragment of its timestamp and thread
\* arrives, the event's stack becomes the fragment's addresses, bad_stack
\* stays false and the thread's pending set is empty.
C4_Index0Matched ==
    [][(/\ Len(events) = 1
        /\ ~Ev(0).stack.some
        /\ UserFragmentStep
        /\ last'.timestamp = Ev(0).timestamp
        /\ last'.thread_id = Ev(0).thread_id)
        => /\ EvNext(0).stack = Some(last'.stack)
           /\ ~EvNext(0).bad_stack
           /\ PendingNext(last'.thread_id) = <<>>]_vars

-----------------------------------------------------------------------------
(* C5 *)

\* C5 (Scenario B): a kernel-ending fragment F that matches an event without
\* stack makes F its stack and registers it; a kernel-ending fragment F that
\* matches a registered event (one whose stack came from kernel fragments,
\* no user-mode fragment of the thread matched since) appends F to the stack:
\* after F1 and then F2 the stack is F1 \o F2.  Either way the index is in the
\* thread's pending Vec exactly once.
C5_KernelFragmentsConcatenate ==
    [][KernelFragmentStep
        => \A k \in 1..Len(last'.matched) :
              LET i == last'.matched[k]
                  T == last'.thread_id
              IN /\ ~Ev(i).stack.some
                     => /\ EvNext(i).stack = Some(last'.stack)
                        /\ Count(PendingNext(T), i) = 1
                 /\ (Ev(i).stack.some /\ Contains(Pending(T), i))
                     => /\ EvNext(i).stack = Some(Ev(i).stack.v \o last'.stack)
                        /\ Count(PendingNext(T), i) = 1]_vars

\* C5 witness: a second kernel-ending fragment F2 has matched an event whose
\* stack was another kernel-ending fragment F1; the stack is F1 \o F2 and the
\* event is registered once.
C5_Witness ==
    /\ KernelFragmentDone /\ panic = NoPanic
    /\ \E k \in 1..Len(last.matched), F1 \in AllStacks :
          LET i == last.matched[k]
          IN /\ F1 # <<>> /\ F1 # last.stack /\ ends_in_kernel_of(F1)
             /\ events[i + 1].stack = Some(F1 \o last.stack)
             /\ Count(Pending(last.thread_id), i) = 1

-----------------------------------------------------------------------------
(* C6 *)

\* C6: a user-mode fragment of thread T that matches an event appends its
\* addresses to the stack of every event in T's pending Vec, however many
\* they are and whatever their timestamps, and T's pending Vec is empty once
\* the fragment has been processed, that is once the merge of the first
\* matched event has reached clear(); a merge stopped before it by
\* assert!(..contains(&i)) has extended the stacks and leaves the Vec as it was.
C6_UserFragmentExtendsAllPending ==
    [][(UserFragmentStep /\ last'.matched # <<>>)
        => LET T == last'.thread_id
           IN /\ \A k \in 1..Len(Pending(T)) :
                    LET e == Pending(T)[k]
                    IN EvNext(e).stack = Some(Ev(e).stack.v \o last'.stack)
              /\ PendingNext(T) = IF FirstMergeDone THEN <<>> ELSE Pending(T)]_vars

\* C6 witness: a user-mode fragment has matched while two events were pending,
\* one of them older than the fragment's timestamp; both stacks end with the
\* fragment and the pending Vec is empty.
C6_Witness ==
    /\ UserFragmentDone /\ last.matched # <<>> /\ panic = NoPanic
    /\ Len(last.pending_before) >= 2
    /\ \E k \in 1..Len(last.pending_before) :
          events[last.pending_before[k] + 1].timestamp < last.timestamp
    /\ \A k \in 1..Len(last.pending_before) :
          LET v == events[last.pending_before[k] + 1].stack.v
          IN Len(v) > Len(last.stack) /\ IsSuffix(last.stack, v)
    /\ Pending(last.thread_id) = <<>>

-----------------------------------------------------------------------------
(* C7 *)

\* C7: a stack that is Some stays Some, and every later value of it has the
\* earlier value as a prefix.
C7_StackOnlyExtended ==
    [][\A i \in Indices :
        (HasEv(i) /\ Ev(i).stack.some)
        => /\ i + 1 <= Len(events')
           /\ EvNext(i).stack.some
           /\ IsPrefix(Ev(i).stack.v, EvNext(i).stack.v)]_vars

\* C7 witness: an event whose stack has been extended by a second fragment
C7_Witness ==
    /\ last # NoFragment /\ last.matched # <<>>
    /\ \E k \in 1..Len(last.matched) :
          LET v == events[last.matched[k] + 1].stack.v
          IN Len(v) > Len(last.stack) /\ IsSuffix(last.stack, v)

-----------------------------------------------------------------------------
(* C8 *)

\* C8: every index in a thread's events_with_unfinished_kernel_stacks is an
\* index of the Timeline whose entry has stack = Some.
C8_PendingHaveStacks ==
    \A t \in Tids : \A k \in 1..Len(Pending(t)) :
        /\ Pending(t)[k] >= 0
        /\ Pending(t)[k] < Len(events)
        /\ events[Pending(t)[k] + 1].stack.some

\* C8 witness: two threads have a pending event each
C8_Witness ==
    \A t \in Tids : Pending(t) # <<>>

-----------------------------------------------------------------------------
(* C9 *)

\* C9: a fragment whose scan finds no match changes no existing Timeline
\* entry and no pending Vec; its only effects are the "no matching event"
\* line and the push of its own record, with stack None; both happen
\* whenever the Timeline was not empty.
C9_NoMatchChangesNothing ==
    [][(FragmentStep /\ last'.matched = <<>>)
        => /\ \A i \in Indices :
                 HasEv(i) => (i + 1 <= Len(events') /\ EvNext(i) = Ev(i))
           /\ \A t \in Tids : PendingNext(t) = Pending(t)
           /\ processes' = processes
           /\ \/ events' = events
              \/ /\ Len(events') = Len(events) + 1
                 /\ events'[Len(events')].name = StackName
                 /\ events'[Len(events')].stack = None
                 /\ ~events'[Len(events')].bad_stack
           /\ diags' \in {NoDiags, <<DiagNoMatch>>}
           /\ events # <<>>
                 => /\ panic' = NoPanic
                    /\ diags' = <<DiagNoMatch>>
                    /\ Len(events') = Len(events) + 1]_vars

\* C9 witness: a fragment found no match while an event held a stack and was
\* pending; the line was printed and the fragment's record pushed.
C9_Witness ==
    /\ last # NoFragment /\ last.stack # <<>> /\ last.matched = <<>>
    /\ diags = <<DiagNoMatch>>
    /\ events[Len(events)].name = StackName
    /\ \E t \in Tids : Pending(t) # <<>>

-----------------------------------------------------------------------------
(* C10 *)

\* C10: a fragment whose scan produces no match is not fatal, whatever the
\* Timeline, the empty one included: the "no matching event" line is printed
\* and the fragment's record is pushed.
C10_NoMatchNeverFatal ==
    [][(FragmentStep /\ last'.matched = <<>>)
        => /\ panic' = NoPanic
           /\ diags' = <<DiagNoMatch>>
           /\ Len(events') = Len(events) + 1
           /\ events'[Len(events')].name = StackName]_vars

-----------------------------------------------------------------------------
(* C11 *)

\* the step handled a stack record whose payload length is not a multiple of
\* 8 or whose payload decodes to no address
MalformedStep ==
    /\ last' # NoFragment
    /\ (last'.buffer_len % 8 # 0 \/ last'.stack = <<>>)

\* C11: a stack record with a malformed payload is skipped: the run goes on,
\* no Timeline entry changes its stack or its bad_stack flag and no pending
\* Vec changes.
C11_MalformedSkipped ==
    [][MalformedStep
        => /\ panic' = NoPanic
           /\ \A i \in Indices :
                 HasEv(i) => /\ i + 1 <= Len(events')
                             /\ EvNext(i).stack = Ev(i).stack
                             /\ EvNext(i).bad_stack = Ev(i).bad_stack
           /\ \A t \in Tids : PendingNext(t) = Pending(t)]_vars

-----------------------------------------------------------------------------
(* C12 *)

\* C12: every record the callback handles to its end makes the Timeline one
\* entry longer (a record whose handling panics adds none); the new entry is
\* the last one, with stack None and bad_stack false, so a stack record's
\* addresses are never in its own entry; no record changes the position,
\* name, timestamp, thread_id or cpu of an entry that was there before.
C12_OnePushPerRecord ==
    [][/\ Len(events') = Len(events) + (IF panic' = NoPanic THEN 1 ELSE 0)
       /\ panic' = NoPanic
             => /\ events'[Len(events')].stack = None
                /\ ~events'[Len(events')].bad_stack
       /\ \A i \in Indices :
             HasEv(i) => /\ EvNext(i).name = Ev(i).name
                         /\ EvNext(i).timestamp = Ev(i).timestamp
                         /\ EvNext(i).thread_id = Ev(i).thread_id
                         /\ EvNext(i).cpu = Ev(i).cpu]_vars

\* C12 witness: a stack record whose fragment was attached to an older entry
\* has been pushed as the last entry, without stack.
C12_Witness ==
    /\ panic = NoPanic
    /\ last # NoFragment /\ last.matched # <<>>
    /\ events[Len(events)].name = StackName
    /\ events[Len(events)].stack = None
    /\ events[last.matched[1] + 1].stack = Some(last.stack)
    /\ last.matched[1] + 1 < Len(events)

-----------------------------------------------------------------------------
(* C13 *)

\* C13: the thread id of the entry pushed for a record is the payload's
\* NewThreadId for a context-switch record, the payload's ThreadId for a
\* sample record and the header's thread id for every other record, a stack
\* record included (its StackThread serves the matching only).
C13_PushedThreadId ==
    (record # NoRecord /\ panic = NoPanic)
        => /\ events[Len(events)].name = record.name
           /\ events[Len(events)].thread_id =
                 IF record.name \in {CSwitchName, SampleProfName}
                 THEN record.payload_thread_id
                 ELSE record.header_thread_id

\* C13 witness: the Timeline ends with a sample record's entry that carries
\* the payload's thread id, not the header's, followed by a stack record's
\* entry that carries the header's thread id, not its StackThread
C13_Witness ==
    /\ Len(events) >= 2
    /\ record.name = StackName
    /\ record.header_thread_id # record.payload_thread_id
    /\ events[Len(events)].name = StackName
    /\ events[Len(events)].thread_id = record.header_thread_id
    /\ events[Len(events) - 1].name = SampleProfName
    /\ events[Len(events) - 1].thread_id \notin StackHeaderTids

-----------------------------------------------------------------------------
(* C14 *)

\* u64 values whose limbs lie at the ends and in the middle of the 16-bit range
BoundaryAddresses == [1..4 -> {0, 32767, 32768, 65534, 65535}]

\* a >= 2^31 and a >= 2^64 - 2^48, told from the limbs of a
AtLeast80000000(a) == a[1] > 0 \/ a[2] > 0 \/ a[3] >= 32768

AtLeastFFFF000000000000(a) == a[1] = 65535

\* C14: is_kernel_address(a, 4) is a >= 0x80000000 and is_kernel_address(a, 8)
\* is a >= 0xFFFF000000000000; and a fragment is treated as kernel-ending
\* (its matches are registered in the thread's pending Vec) exactly when its
\* last address is >= 0xFFFF000000000000, whatever its other addresses;
\* otherwise it is treated as user-mode (the pending Vec ends empty).
C14_KernelAddress ==
    /\ \A a \in BoundaryAddresses :
          /\ is_kernel_address(a, 4) = AtLeast80000000(a)
          /\ is_kernel_address(a, 8) = AtLeastFFFF000000000000(a)
    /\ (last # NoFragment /\ last.matched # <<>> /\ panic = NoPanic)
          => LET a == last.stack[Len(last.stack)]
                 P == Pending(last.thread_id)
             IN IF AtLeastFFFF000000000000(a)
                THEN \A k \in 1..Len(last.matched) : Contains(P, last.matched[k])
                ELSE P = <<>>

\* C14 witness: a fragment of a user address followed by 0xFFFF000000000000
\* has been registered as a kernel stack
C14_Witness ==
    /\ panic = NoPanic
    /\ last.stack = <<KernelStart32, KernelStart64>>
    /\ last.matched # <<>>
    /\ events[last.matched[1] + 1].stack = Some(last.stack)
    /\ Contains(Pending(last.thread_id), last.matched[1])

-----------------------------------------------------------------------------
(* C15 *)

\* the indices the scan of the step's fragment matched
MatchedNext == {last'.matched[k] : k \in 1..Len(last'.matched)}

\* the entries the scan of the step's fragment can reach and match: timestamp
\* and thread equal the fragment's, and no entry above has a smaller
\* timestamp (index 0 is not scanned)
Matchable ==
    {i \in 1..(Len(events) - 1) :
        /\ Ev(i).timestamp = last'.timestamp
        /\ Ev(i).thread_id = last'.thread_id
        /\ \A j \in (i + 1)..(Len(events) - 1) : Ev(j).timestamp >= last'.timestamp}

\* C15: a fragment of timestamp t and thread T matches only events of
\* timestamp t and thread T; it matches none at or below the highest entry
\* with a timestamp below t, also when such an event has timestamp t and
\* thread T; an entry with a timestamp above t does not end the scan: the
\* events of timestamp t and thread T below it are matched all the same
\* (all of them, unless an assert! ends the run at a match above).
C15_MatchWindow ==
    [][FragmentStep
        => /\ \A i \in MatchedNext :
                 /\ HasEv(i)
                 /\ Ev(i).timestamp = last'.timestamp
                 /\ Ev(i).thread_id = last'.thread_id
                 /\ \A j \in Indices :
                       (HasEv(j) /\ Ev(j).timestamp < last'.timestamp) => j < i
           /\ \A i \in Matchable :
                 \/ i \in MatchedNext
                 \/ /\ panic' = PanicAssertContains
                    /\ \E m \in MatchedNext : m > i]_vars

\* C15 witness: records out of order: a fragment found no match although an
\* event of its timestamp and thread lies in the Timeline, below an entry
\* with a smaller timestamp
C15_Witness ==
    /\ last # NoFragment /\ last.stack # <<>> /\ last.matched = <<>>
    /\ \E i \in 1..(Len(events) - 2), j \in 1..(Len(events) - 2) :
          /\ i < j
          /\ events[i + 1].timestamp = last.timestamp
          /\ events[i + 1].thread_id = last.thread_id
          /\ events[j + 1].timestamp < last.timestamp

-----------------------------------------------------------------------------
(* C16 *)

\* the "more than one associated event" lines among the lines of a record
AmbiguityLines(lines) ==
    SelectSeq(lines, LAMBDA d : d[1] = "more than one associated event")

\* C16: a scan that finds k >= 2 matches finds them in descending index
\* order and prints k - 1 ambiguity lines, one per match after the first,
\* each naming the match before it; the merge is applied to every match: if
\* the fragment is kernel-ending and none of the k events had a stack, each
\* of them ends with the fragment's addresses as its stack and the k indices
\* are appended to the thread's pending Vec, in the order of the scan.
C16_EveryMatchMerged ==
    [][(FragmentStep /\ Len(last'.matched) >= 2)
        => LET m == last'.matched
               T == last'.thread_id
           IN /\ \A k \in 1..(Len(m) - 1) : m[k] > m[k + 1]
              /\ AmbiguityLines(diags') =
                    [k \in 1..(Len(m) - 1) |-> DiagAmbiguous(m[k], m[k + 1])]
              /\ (/\ ends_in_kernel_of(last'.stack)
                  /\ \A k \in 1..Len(m) : ~Ev(m[k]).stack.some)
                    => /\ panic' = NoPanic
                       /\ \A k \in 1..Len(m) : EvNext(m[k]).stack = Some(last'.stack)
                       /\ PendingNext(T) = Pending(T) \o m]_vars

\* C16 witness: a kernel-ending fragment has matched three events at once;
\* two ambiguity lines were printed, the three events hold the fragment as
\* their stack and are the thread's pending Vec.
C16_Witness ==
    /\ KernelFragmentDone /\ panic = NoPanic
    /\ Len(last.matched) = 3
    /\ Len(AmbiguityLines(diags)) = 2
    /\ \A k \in 1..3 : events[last.matched[k] + 1].stack = Some(last.stack)
    /\ Pending(last.thread_id) = last.matched

-----------------------------------------------------------------------------
(* C17 *)

\* the step handled a user-mode fragment of thread t that matched an event
UserMatchedStep(t) ==
    UserFragmentStep /\ last'.thread_id = t /\ last'.matched # <<>>

\* the indices into which the step merged a kernel-ending fragment of
\* thread t (a merge that panics is the last one and does not count)
KernelMerged(t) ==
    IF KernelFragmentStep /\ last'.thread_id = t
    THEN IF panic' = NoPanic \/ last'.matched = <<>> THEN MatchedNext
         ELSE MatchedNext \ {last'.matched[Len(last'.matched)]}
    ELSE {}

\* the indices a Vec holds
Elements(vec) == {vec[k] : k \in 1..Len(vec)}

\* C17: a pending Vec loses entries only in a step that handles a user-mode
\* fragment of its thread that finds a match, and is empty after it; in every
\* other step (kernel-ending fragments, fragments without match, other
\* records) it keeps its entries and gains exactly the indices a
\* kernel-ending fragment of its thread was merged into.  So the events a
\* thread lists as unfinished at the end are those that received a
\* kernel-ending fragment after the last matched user-mode fragment of
\* the thread.
C17_PendingLifeCycle ==
    [][\A t \in Tids :
        /\ ~IsPrefix(Pending(t), PendingNext(t))
              => (UserMatchedStep(t) /\ PendingNext(t) = <<>>)
        /\ (UserMatchedStep(t) /\ panic' = NoPanic) => PendingNext(t) = <<>>
        /\ ~UserMatchedStep(t)
              => Elements(PendingNext(t)) =
                    Elements(Pending(t)) \cup KernelMerged(t)]_vars

\* C17 witness: a matched user-mode fragment has emptied a pending Vec that
\* held an event, and the event keeps the stack the kernel-ending fragment
\* gave it, extended by the user-mode fragment.
C17_Witness ==
    /\ UserFragmentDone /\ last.matched # <<>> /\ panic = NoPanic
    /\ last.pending_before # <<>>
    /\ Pending(last.thread_id) = <<>>
    /\ LET v == events[last.pending_before[1] + 1].stack.v
       IN ends_in_kernel_of(<<v[1]>>) /\ ~ends_in_kernel_of(v)

-----------------------------------------------------------------------------
(* C18 *)

\* the kernel-ending fragments the stack records of a trace can carry
KernelFragments == {f \in AllStacks \cup BoundaryStacks : f # <<>> /\ ends_in_kernel_of(f)}

\* v is one kernel-ending fragment or several of them, one after another
RECURSIVE IsKernelConcat(_)
IsKernelConcat(v) ==
    \E f \in KernelFragments :
        /\ IsPrefix(f, v)
        /\ \/ Len(f) = Len(v)
           \/ IsKernelConcat(SubSeq(v, Len(f) + 1, Len(v)))

\* C18: between two records, the stack of every event registered in a
\* pending Vec is made of kernel-ending fragments only, one or more, so its
\* last address is a kernel address.  (A run that panics handles no further
\* record and prints no report; the assert! of the user-mode arm panics
\* after the pending stacks were extended and before clear().)
C18_PendingStacksAreKernel ==
    panic = NoPanic
        => \A t \in Tids : \A k \in 1..Len(Pending(t)) :
              LET v == events[Pending(t)[k] + 1].stack.v
              IN /\ v # <<>>
                 /\ IsKernelConcat(v)
                 /\ is_kernel_address(v[Len(v)], 8)

\* C18 witness: a registered event whose stack is two kernel-ending
\* fragments, the first address of which is a user address
C18_Witness ==
    /\ panic = NoPanic
    /\ \E t \in Tids : \E k \in 1..Len(Pending(t)) :
          LET v == events[Pending(t)[k] + 1].stack.v
          IN /\ Len(v) >= 3
             /\ ~is_kernel_address(v[1], 8)
             /\ is_kernel_address(v[Len(v)], 8)

-----------------------------------------------------------------------------
(* C19 *)

\* C19: one fragment is appended to an entry at most once: after a stack
\* record every entry's stack is what it was, or what it was followed by one
\* copy of the fragment's addresses, or, for an entry without stack, the
\* fragment's addresses.
C19_AppendedAtMostOnce ==
    [][last' # NoFragment
        => \A i \in 0..(Len(events) - 1) :
              \/ EvNext(i).stack = Ev(i).stack
              \/ /\ Ev(i).stack.some
                 /\ EvNext(i).stack = Some(Ev(i).stack.v \o last'.stack)
              \/ /\ ~Ev(i).stack.some
                 /\ EvNext(i).stack = Some(last'.stack)]_vars

\* C19 witness: a user-mode fragment has matched an event that was itself
\* registered as pending with the stack <<K1>>; its stack holds the fragment
\* once.
C19_Witness ==
    /\ UserFragmentDone /\ last.matched # <<>>
    /\ Contains(last.pending_before, last.matched[1])
    /\ events[last.matched[1] + 1].stack = Some(<<K1>> \o last.stack)

-----------------------------------------------------------------------------
(* C20 *)

\* C20: a stack record whose fragment belongs to thread T changes the stack
\* and the bad_stack flag of entries of thread T only, and the ThreadState
\* of T only: the entries and the pending Vecs of the other threads stay as
\* they were.
C20_ThreadIsolation ==
    [][last' # NoFragment
        => /\ \A i \in 0..(Len(events) - 1) :
                 Ev(i).thread_id # last'.thread_id
                     => /\ EvNext(i).stack = Ev(i).stack
                        /\ EvNext(i).bad_stack = Ev(i).bad_stack
           /\ \A t \in Tids \ {last'.thread_id} : threads'[t] = threads[t]]_vars

\* C20 witness: a fragment has been merged into an event of its thread while
\* an event of another thread held a stack and was pending
C20_Witness ==
    /\ last # NoFragment /\ last.matched # <<>>
    /\ events[last.matched[1] + 1].stack.some
    /\ \E t \in Tids \ {last.thread_id} :
          /\ Pending(t) # <<>>
          /\ events[Pending(t)[1] + 1].thread_id = t
          /\ events[Pending(t)[1] + 1].stack.some

-----------------------------------------------------------------------------
(* C21 *)

\* C21: after every record no pending Vec holds an index twice, no index is
\* in the pending Vecs of two threads, and every pending index is an entry of
\* the Vec's thread; an index enters a pending Vec only while its entry has
\* no stack, and as a stack never returns to None (C7) an index is
\* registered at most once in a run.
C21_RegisteredOnce ==
    [][\A t \in Tids :
        /\ \A k \in 1..Len(PendingNext(t)) :
              LET i == PendingNext(t)[k]
              IN /\ Count(PendingNext(t), i) = 1
                 /\ EvNext(i).thread_id = t
                 /\ EvNext(i).stack.some
                 /\ \A u \in Tids \ {t} : ~Contains(PendingNext(u), i)
                 /\ ~Contains(Pending(t), i) => (HasEv(i) /\ ~Ev(i).stack.some)]_vars

\* C21 witness: two events of one thread are registered, once each, and a
\* second kernel-ending fragment that matched both has extended their stacks
\* without registering them again
C21_Witness ==
    /\ KernelFragmentDone /\ panic = NoPanic
    /\ Len(last.matched) = 2
    /\ last.pending_before = last.matched
    /\ Pending(last.thread_id) = last.matched
    /\ \A k \in 1..2 :
          events[last.matched[k] + 1].stack = Some(last.stack \o last.stack)

-----------------------------------------------------------------------------
(* C22 *)

\* C22: after every record an entry with bad_stack = true has a stack and is
\* in no pending Vec; bad_stack never goes back from true to false; and it
\* becomes true only in a step that handles a matched user-mode fragment, on
\* an entry that was in the pending Vec of the fragment's thread and whose
\* timestamp is strictly below that of the matched event.
C22_BadStack ==
    [][\A i \in 0..(Len(events') - 1) :
        /\ EvNext(i).bad_stack
              => /\ EvNext(i).stack.some
                 /\ \A t \in Tids : ~Contains(PendingNext(t), i)
        /\ (HasEv(i) /\ Ev(i).bad_stack) => EvNext(i).bad_stack
        /\ (EvNext(i).bad_stack /\ ~(HasEv(i) /\ Ev(i).bad_stack))
              => /\ HasEv(i)
                 /\ UserFragmentStep /\ last'.matched # <<>>
                 /\ Contains(Pending(last'.thread_id), i)
                 /\ Ev(i).timestamp < Ev(last'.matched[1]).timestamp]_vars

\* C22 witness: a matched user-mode fragment has flagged the one event that
\* was pending for its thread; the event has a stack, an older timestamp
\* than the matched event, and is pending no more
C22_Witness ==
    /\ UserFragmentDone /\ last.matched # <<>>
    /\ Len(last.pending_before) = 1
    /\ LET e == events[last.pending_before[1] + 1]
       IN /\ e.bad_stack /\ e.stack.some
          /\ e.timestamp < events[last.matched[1] + 1].timestamp
    /\ \A t \in Tids : Pending(t) = <<>>

\* C23: for every fragment and every non-empty Timeline the backward scan
\* terminates.  Each iteration examines one entry; it either leaves the loop,
\* at an entry with a smaller timestamp, or moves the index down by one, and
\* the index never goes below 0.  The scan examines at most as many entries as
\* the Timeline held when it began.  When the loop is left without a panic it
\* is left at the first entry (from the newest) with a smaller timestamp or at
\* index 0, every entry from the newest down to there was examined, and the
\* fragment's own record is appended to the Timeline.  The only other way a
\* scan ends is the failed assertion of C2.  Taken in one step or iteration by
\* iteration, the scan gives the same Timeline, pending set, matches and panic.
\* Every scan that has begun ends.
C23_ScanTerminates ==
    /\ [][scan # NoScan =>
            /\ scan' # NoScan =>
                  /\ scan'.examined = scan.examined + 1
                  /\ scan'.examined <= Len(scan.events_before)
                  /\ scan'.i >= 0
                  /\ \/ /\ scan'.i = scan.i - 1 /\ ~scan'.left
                        /\ Ev(scan.i).timestamp >= scan.timestamp
                     \/ /\ scan'.i = scan.i /\ scan'.left
                        /\ Ev(scan.i).timestamp < scan.timestamp
            /\ scan' = NoScan =>
                  LET c == Correlate(scan.events_before, scan.pending_before,
                                     scan.timestamp, scan.thread_id, scan.stack)
                  IN /\ panic' = c.panic
                     /\ PendingNext(scan.thread_id) = c.pending
                     /\ last'.matched = c.matched
                     /\ panic' # NoPanic =>
                           /\ panic' = PanicAssertContains
                           /\ events' = c.events
                     /\ panic' = NoPanic =>
                           /\ IF scan.left
                              THEN Ev(scan.i).timestamp < scan.timestamp
                              ELSE scan.i = 0
                           /\ \A j \in (scan.i + 1)..(Len(events) - 1) :
                                 Ev(j).timestamp >= scan.timestamp
                           /\ scan.examined = Len(events) - 1 - scan.i
                                                + (IF scan.left THEN 1 ELSE 0)
                           /\ events = c.events
                           /\ events' = Push(events, StackName, scan.TimeStamp,
                                             scan.ThreadId, scan.cpu)]_vars
    /\ (scan # NoScan) ~> (scan = NoScan)

\* a scan that went over two entries of a Timeline of three, merged a fragment
\* into one of them and reached index 0, which it leaves unexamined
C23_Witness ==
    /\ scan # NoScan /\ panic = NoPanic
    /\ Len(events) = 3 /\ scan.i = 0 /\ ~scan.left
    /\ scan.examined = 2 /\ Len(scan.matched) = 1

=============================================================================
